---- MODULE Spec2Model ----
(***************************************************************************)
(* Permission resolution of discordeno (util/permissions.ts) over the      *)
(* cache (guilds, members, channels).  Permission bit strings are decimal  *)
(* strings, modelled as sequences of digits; BigInt values are integers    *)
(* with two's-complement bitwise operators.                                *)
(***************************************************************************)
EXTENDS Integers, Sequences, FiniteSets, TLC

VARIABLES guilds, members, channels, bot, lastCall, result

vars == <<guilds, members, channels, bot, lastCall, result>>

(***************************************************************************)
(* Bounds of the explored inputs.                                          *)
(***************************************************************************)
\* longest role list recorded for a member in a guild
MaxRoles == 2
\* longest permission_overwrites list of a channel payload
MaxOverwrites == 2

(***************************************************************************)
(* Identities.  The everyone role shares the guild's ID.                   *)
(***************************************************************************)
GuildIDs == {"10"}
MemberIDs == {"20", "21"}
RoleIDs == {"30", "31", "32"}
ChannelIDs == {"40"}

\* JavaScript undefined, and the falsy values an ID can take
Undefined == "undefined"
Falsy(x) == x \in {Undefined, ""}

(***************************************************************************)
(* The module state of bot.ts before startBot: authorization, botID,       *)
(* identifyPayload, proxyWSURL, botGatewayData (unset: the empty list);    *)
(* the endpoints a big bot may redirect; the shard range handed to         *)
(* spawnShards (none yet: the empty list).                                 *)
(***************************************************************************)
InitialBot ==
  [botID |-> "",
   authorization |-> "",
   token |-> "",
   compress |-> TRUE,
   intents |-> 0,
   proxyWSURL |-> "wss://gateway.discord.gg",
   restURL |-> "default",
   cdnURL |-> "default",
   eventHandlers |-> "none",
   botGatewayData |-> <<>>,
   spawned |-> <<>>]

(***************************************************************************)
(* Decimal strings <-> BigInt.                                             *)
(***************************************************************************)
RECURSIVE toString(_)
toString(n) ==
  IF n < 10 THEN <<n>> ELSE toString(n \div 10) \o <<n % 10>>

RECURSIVE ParseDigits(_, _)
ParseDigits(s, acc) ==
  IF s = <<>> THEN acc ELSE ParseDigits(Tail(s), 10 * acc + Head(s))

\* a JavaScript value handed to BigInt(): a decimal string, or a Promise
\* object (see Promise below)
StringValue(s) == [t |-> "string", s |-> s]

\* BigInt(value): a decimal string parses; a Promise converts to the primitive
\* "[object Promise]", which is no integer literal: SyntaxError
BigInt(v) ==
  IF v.t = "promise"
    THEN [ok |-> FALSE, n |-> 0, error |-> "SyntaxError"]
    ELSE [ok |-> TRUE, n |-> ParseDigits(v.s, 0), error |-> ""]

\* BigInt of a string known to be a decimal literal
BigIntOf(s) == BigInt(StringValue(s)).n

(***************************************************************************)
(* BigInt bitwise operators (infinite two's complement).                   *)
(***************************************************************************)
RECURSIVE BitAnd(_, _)
BitAnd(a, b) ==
  IF a = 0 \/ b = 0 THEN 0
  ELSE IF a = -1 THEN b
  ELSE IF b = -1 THEN a
  ELSE (a % 2) * (b % 2) + 2 * BitAnd(a \div 2, b \div 2)

RECURSIVE BitOr(_, _)
BitOr(a, b) ==
  IF a = 0 THEN b
  ELSE IF b = 0 THEN a
  ELSE IF a = -1 \/ b = -1 THEN -1
  ELSE (IF a % 2 = 1 \/ b % 2 = 1 THEN 1 ELSE 0) + 2 * BitOr(a \div 2, b \div 2)

BitNot(a) == -a - 1

(***************************************************************************)
(* The part of the Permissions catalog the model uses.                     *)
(***************************************************************************)
ADMINISTRATOR == 8
VIEW_CHANNEL == 1024
SEND_MESSAGES == 2048

(***************************************************************************)
(* Completions of an async function: a returned string or a thrown error.  *)
(***************************************************************************)
Return(s) == [threw |-> FALSE, value |-> s, error |-> ""]
Throw(e) == [threw |-> TRUE, value |-> <<>>, error |-> e]
NoResult == [threw |-> FALSE, value |-> <<>>, error |-> "none"]

(***************************************************************************)
(* computeBasePermissions                                                  *)
(***************************************************************************)
\* guild.ownerID === memberID
isOwner_guildID(guild, memberID) == guild.id = memberID
isOwner(guild, memberID) == guild.ownerID = memberID

\* member.guilds.get(guildID)?.roles
hasGuildMember(member, guildID) == guildID \in DOMAIN member.guilds
\* member.guilds.get(guildID)?.roles || []
memberRoleIDs(member, guildID) ==
  IF hasGuildMember(member, guildID) THEN member.guilds[guildID].roles ELSE <<>>

\* [...roles, guildID]: the everyone role is not in the member's list
candidateRoleIDs_noEveryone(member, guildID) == memberRoleIDs(member, guildID)
candidateRoleIDs(member, guildID) == memberRoleIDs(member, guildID) \o <<guildID>>

\* .map((id) => guild.roles.get(id)?.permissions).filter((id) => id):
\* IDs without a role, and empty permission strings, are dropped
RECURSIVE rolePermissions(_, _)
rolePermissions(guild, ids) ==
  IF ids = <<>> THEN <<>>
  ELSE LET id == Head(ids)
           rest == rolePermissions(guild, Tail(ids))
       IN IF id \in DOMAIN guild.roles /\ guild.roles[id].permissions # <<>>
            THEN <<guild.roles[id].permissions>> \o rest
            ELSE rest

\* .reduce((bits, perms) => bits |= BigInt(perms), BigInt(0))
RECURSIVE reduceBits(_, _)
reduceBits(perms, bits) ==
  IF perms = <<>> THEN bits
  ELSE reduceBits(Tail(perms), BitOr(bits, BigIntOf(Head(perms))))

\* if (permissions & ADMINISTRATOR) return "8"; return permissions.toString()
returnBits_literal(permissions) == Return(toString(permissions))
returnBits(permissions) ==
  IF BitAnd(permissions, ADMINISTRATOR) # 0
    THEN Return(<<8>>)
    ELSE Return(toString(permissions))

\* the member looked up before the guild
computeBasePermissions_memberFirst(memberID, guildID) ==
  IF memberID \notin DOMAIN members THEN Throw("MEMBER_NOT_FOUND")
  ELSE IF guildID \notin DOMAIN guilds THEN Throw("GUILD_NOT_FOUND")
  ELSE IF isOwner(guilds[guildID], memberID) THEN Return(<<8>>)
  ELSE returnBits(BitOr(0, reduceBits(
         rolePermissions(guilds[guildID],
                         candidateRoleIDs(members[memberID], guildID)), 0)))

computeBasePermissions(memberID, guildID) ==
  IF guildID \notin DOMAIN guilds THEN Throw("GUILD_NOT_FOUND")
  ELSE LET guild == guilds[guildID] IN
    IF isOwner(guild, memberID) THEN Return(<<8>>)
    ELSE IF memberID \notin DOMAIN members THEN Throw("MEMBER_NOT_FOUND")
    ELSE LET member == members[memberID]
             permissions ==
               BitOr(0, reduceBits(
                 rolePermissions(guild, candidateRoleIDs(member, guildID)), 0))
         IN returnBits(permissions)

(***************************************************************************)
(* computeChannelOverwrites                                                *)
(***************************************************************************)
\* the Promise an async function returns when it is called without await
Promise(completion) == [t |-> "promise", s |-> <<>>, settled |-> completion]

\* !channel.guildID
isDMChannel_undefinedOnly(channel) == channel.guildID = Undefined
isDMChannel(channel) == Falsy(channel.guildID)

\* overwrites.find((overwrite) => overwrite.id === id): the index of the first
\* match, 0 when there is none
findOverwrite(overwrites, id) ==
  IF \E i \in DOMAIN overwrites : overwrites[i].id = id
    THEN CHOOSE i \in DOMAIN overwrites :
           /\ overwrites[i].id = id
           /\ \A j \in DOMAIN overwrites : overwrites[j].id = id => i <= j
    ELSE 0

\* permissions &= ~BigInt(overwrite.deny); permissions |= BigInt(overwrite.allow)
applyOverwrite(permissions, overwrite) ==
  BitOr(BitAnd(permissions, BitNot(BigIntOf(overwrite.deny))),
        BigIntOf(overwrite.allow))

\* the property names for...in enumerates on an array of n elements
ArrayKeys == <<"0", "1", "2", "3">>
forInKeys(member, guildID) ==
  IF hasGuildMember(member, guildID)
    THEN SubSeq(ArrayKeys, 1, Len(member.guilds[guildID].roles))
    ELSE <<>>

\* the loop over the member's roles: deny &= ~BigInt(overwriteRole.deny);
\* allow |= BigInt(overwriteRole.allow)
RECURSIVE roleOverwrites(_, _, _)
roleOverwrites(overwrites, keys, acc) ==
  IF keys = <<>> THEN acc
  ELSE LET i == findOverwrite(overwrites, Head(keys))
           next == IF i = 0 THEN acc
                   ELSE [deny |-> BitAnd(acc.deny, BitNot(BigIntOf(overwrites[i].deny))),
                         allow |-> BitOr(acc.allow, BigIntOf(overwrites[i].allow))]
       IN roleOverwrites(overwrites, Tail(keys), next)

\* the three tiers applied to the base permissions: everyone, roles, member
applyOverwrites(base, member, memberID, channel) ==
  LET overwrites == channel.permissionOverwrites
      e == findOverwrite(overwrites, channel.guildID)
      p1 == IF e # 0 THEN applyOverwrite(base, overwrites[e]) ELSE base
      masks == roleOverwrites(overwrites, forInKeys(member, channel.guildID),
                              [deny |-> 0, allow |-> 0])
      p2 == BitOr(BitAnd(p1, BitNot(masks.deny)), masks.allow)
      m == findOverwrite(overwrites, memberID)
  IN IF m # 0 THEN applyOverwrite(p2, overwrites[m]) ELSE p2

computeChannelOverwrites(memberID, channelID) ==
  IF channelID \notin DOMAIN channels THEN Throw("CHANNEL_NOT_FOUND")
  ELSE LET channel == channels[channelID] IN
    IF isDMChannel(channel) THEN Return(<<8>>)
    ELSE LET permissions ==
               BigInt(Promise(computeBasePermissions(memberID, channel.guildID)))
         IN IF ~permissions.ok THEN Throw(permissions.error)
            ELSE IF BitAnd(permissions.n, ADMINISTRATOR) # 0 THEN Return(<<8>>)
            ELSE IF memberID \notin DOMAIN members THEN Throw("MEMBER_NOT_FOUND")
            ELSE Return(toString(
                   applyOverwrites(permissions.n, members[memberID], memberID, channel)))

(***************************************************************************)
(* createChannel: the channel structure built from a payload and cached.   *)
(***************************************************************************)
\* a destructured payload field with its default
field(data, name, default) ==
  IF name \in DOMAIN data THEN data[name] ELSE default

channelOf(data, guildID) ==
  LET rawGuildID == field(data, "guild_id", "")
  IN [id |-> data.id,
      guildID |-> IF Falsy(guildID) THEN rawGuildID ELSE guildID,
      permissionOverwrites |-> field(data, "permission_overwrites", <<>>)]

(***************************************************************************)
(* Snapshots explored.                                                     *)
(***************************************************************************)
\* permission strings "0", "8", "1024", "2048" of cached roles
RolePerms == {<<0>>, <<8>>, <<1, 0, 2, 4>>, <<2, 0, 4, 8>>}

RoleRecord(id, perms) == [id |-> id, permissions |-> perms, position |-> 0]

\* the role maps of guild g: the everyone role and any of the other roles
RoleMaps(g, perms) ==
  UNION {[({g} \cup D) -> perms] : D \in SUBSET RoleIDs}

GuildRecord(g, owner, pm) ==
  [id |-> g, ownerID |-> owner,
   roles |-> [r \in DOMAIN pm |-> RoleRecord(r, pm[r])]]

\* role lists without repetition, of length <= MaxRoles
RoleLists ==
  {s \in UNION {[1..n -> RoleIDs] : n \in 0..MaxRoles} :
     \A i, j \in DOMAIN s : i # j => s[i] # s[j]}

MemberRecord(m, gs) == [id |-> m, guilds |-> gs]

\* the guild entries of a member: none, or a role list for guild g
MemberGuildMaps(g, lists) ==
  {<<>>} \cup {(g :> [roles |-> l]) : l \in lists}

EmptyMap == <<>>

InitBase ==
  /\ \E g \in GuildIDs :
       \/ guilds = EmptyMap
       \/ \E owner \in MemberIDs, pm \in RoleMaps(g, RolePerms) :
            guilds = (g :> GuildRecord(g, owner, pm))
  /\ \E D \in SUBSET MemberIDs :
       \E gm \in [D -> MemberGuildMaps("10", RoleLists)] :
         /\ \A m \in D : m # "20" => gm[m] \in MemberGuildMaps("10", {<<>>})
         /\ members = [m \in D |-> MemberRecord(m, gm[m])]
  /\ channels = EmptyMap
  /\ bot = InitialBot
  /\ lastCall = [op |-> "none", memberID |-> "", id |-> ""]
  /\ result = NoResult

CallComputeBasePermissions(memberID, guildID) ==
  /\ lastCall' = [op |-> "computeBasePermissions", memberID |-> memberID, id |-> guildID]
  /\ result' = computeBasePermissions(memberID, guildID)
  /\ UNCHANGED <<guilds, members, channels, bot>>

NextBase ==
  \E memberID \in MemberIDs, guildID \in GuildIDs :
    CallComputeBasePermissions(memberID, guildID)

SpecBase == InitBase /\ [][NextBase]_vars

(***************************************************************************)
(* Vocabulary of the properties, defined without the bitwise operators of  *)
(* the model: a capability set is the set of bit values it contains.       *)
(***************************************************************************)
RECURSIVE Pow(_, _)
Pow(b, e) == IF e = 0 THEN 1 ELSE b * Pow(b, e - 1)

\* the value of a decimal string, by positional weights
DecimalValue(s) ==
  LET RECURSIVE Sum(_)
      Sum(i) == IF i > Len(s) THEN 0 ELSE s[i] * Pow(10, Len(s) - i) + Sum(i + 1)
  IN Sum(1)

BitValues == {Pow(2, i) : i \in 0..11}
HasBit(n, b) == (n \div b) % 2 = 1
BitsOf(n) == {b \in BitValues : HasBit(n, b)}
\* the capability set a returned permission string denotes
Granted(s) == BitsOf(DecimalValue(s))

Sentinel == <<8>>
IsSet(r) == /\ ~r.threw
            /\ r.error = ""

\* the roles of guild g applicable to member m: the roles held that exist in
\* the guild, and the everyone role
HeldRoles(m, g) ==
  IF m \in DOMAIN members /\ g \in DOMAIN members[m].guilds
    THEN {members[m].guilds[g].roles[i] : i \in DOMAIN members[m].guilds[g].roles}
    ELSE {}
ApplicableRoles(m, g) == (HeldRoles(m, g) \cup {g}) \cap DOMAIN guilds[g].roles
RoleGrants(g, r) == Granted(guilds[g].roles[r].permissions)
HasAdminRole(m, g) ==
  \E r \in ApplicableRoles(m, g) : ADMINISTRATOR \in RoleGrants(g, r)
IsGuildOwner(m, g) == guilds[g].ownerID = m

BaseCalled(m, g) ==
  lastCall = [op |-> "computeBasePermissions", memberID |-> m, id |-> g]

\* C1: in a snapshot containing guild g, computeBasePermissions called with the
\* ID of g's owner returns the sentinel "8", whatever roles the owner holds and
\* also when the owner has no member record.
C1_OwnerSentinel ==
  \A m \in MemberIDs, g \in GuildIDs :
    (BaseCalled(m, g) /\ g \in DOMAIN guilds /\ IsGuildOwner(m, g))
      => result = Return(Sentinel)

\* the owner has no member record and the call returned the sentinel
C1_Witness ==
  \E m \in MemberIDs, g \in GuildIDs :
    /\ BaseCalled(m, g) /\ g \in DOMAIN guilds /\ IsGuildOwner(m, g)
    /\ m \notin DOMAIN members
    /\ result = Return(Sentinel)

\* C2: for a non-owner member of the snapshot, when one of the aggregated roles
\* (held roles plus everyone) carries ADMINISTRATOR, computeBasePermissions
\* returns exactly the sentinel and not the literal union.
C2_AdminRoleSentinel ==
  \A m \in MemberIDs, g \in GuildIDs :
    (/\ BaseCalled(m, g) /\ g \in DOMAIN guilds /\ ~IsGuildOwner(m, g)
     /\ m \in DOMAIN members /\ HasAdminRole(m, g))
      => result = Return(Sentinel)

\* a held role carries ADMINISTRATOR, the everyone role grants another bit, and
\* the call returned the sentinel
C2_Witness ==
  \E m \in MemberIDs, g \in GuildIDs :
    /\ BaseCalled(m, g) /\ g \in DOMAIN guilds /\ ~IsGuildOwner(m, g)
    /\ m \in DOMAIN members
    /\ \E r \in ApplicableRoles(m, g) \ {g} : ADMINISTRATOR \in RoleGrants(g, r)
    /\ VIEW_CHANNEL \in RoleGrants(g, g)
    /\ result = Return(Sentinel)

\* C3: for a non-owner member of the snapshot without ADMINISTRATOR role,
\* computeBasePermissions returns exactly the union of the capability sets of
\* the everyone role and of the held roles that exist in the guild; role IDs
\* without a role contribute nothing and raise no error; so the result
\* contains every bit of the everyone role.
C3_UnionOfRoles ==
  \A m \in MemberIDs, g \in GuildIDs :
    (/\ BaseCalled(m, g) /\ g \in DOMAIN guilds /\ ~IsGuildOwner(m, g)
     /\ m \in DOMAIN members /\ ~HasAdminRole(m, g))
      => /\ IsSet(result)
         /\ Granted(result.value) =
              UNION {RoleGrants(g, r) : r \in ApplicableRoles(m, g)}
         /\ RoleGrants(g, g) \subseteq Granted(result.value)

\* the member holds a role granting SEND_MESSAGES and a role ID that is not in
\* the guild, the everyone role grants VIEW_CHANNEL, and the call returned both
C3_Witness ==
  \E m \in MemberIDs, g \in GuildIDs :
    /\ BaseCalled(m, g) /\ g \in DOMAIN guilds /\ ~IsGuildOwner(m, g)
    /\ m \in DOMAIN members /\ ~HasAdminRole(m, g)
    /\ HeldRoles(m, g) \ DOMAIN guilds[g].roles # {}
    /\ \E r \in ApplicableRoles(m, g) \ {g} : RoleGrants(g, r) = {SEND_MESSAGES}
    /\ RoleGrants(g, g) = {VIEW_CHANNEL}
    /\ IsSet(result)
    /\ Granted(result.value) = {VIEW_CHANNEL, SEND_MESSAGES}

(***************************************************************************)
(* Channels: payloads received for channels that are not cached yet, and   *)
(* permission checks on them.                                              *)
(***************************************************************************)
\* the overwrite bit strings explored: "0" and "2048" (SEND_MESSAGES)
OverwriteBits == {<<0>>, <<2, 0, 4, 8>>}
\* the identities an overwrite can carry, in the order the payload lists them
OverwriteIDs == <<"10", "30", "31", "20">>

Overwrites ==
  {[id |-> OverwriteIDs[i], allow |-> a, deny |-> d] :
     i \in DOMAIN OverwriteIDs, a \in OverwriteBits, d \in OverwriteBits}
     \ {[id |-> OverwriteIDs[i], allow |-> <<0>>, deny |-> <<0>>] : i \in DOMAIN OverwriteIDs}

IDIndex(id) == CHOOSE i \in DOMAIN OverwriteIDs : OverwriteIDs[i] = id

\* overwrite lists of length <= MaxOverwrites, one overwrite per identity
OverwriteLists ==
  {s \in UNION {[1..n -> Overwrites] : n \in 0..MaxOverwrites} :
     \A i, j \in DOMAIN s : i < j => IDIndex(s[i].id) < IDIndex(s[j].id)}

ChannelPayloads ==
  {[id |-> c] : c \in ChannelIDs}
  \cup {[id |-> c, permission_overwrites |-> l] : c \in ChannelIDs, l \in OverwriteLists}
  \cup {[id |-> c, guild_id |-> g, permission_overwrites |-> l] :
          c \in ChannelIDs, g \in GuildIDs, l \in OverwriteLists}

\* the guilds of the channel runs: everyone grants VIEW_CHANNEL, role "30"
\* grants SEND_MESSAGES or ADMINISTRATOR, role "31" grants nothing or is absent
ChannelRoleMaps(g) ==
  {(g :> <<1, 0, 2, 4>>) @@ ("30" :> p) @@ rest :
     p \in {<<2, 0, 4, 8>>, <<8>>}, rest \in {<<>>, ("31" :> <<0>>)}}

InitChannel ==
  /\ \E g \in GuildIDs :
       \/ guilds = EmptyMap
       \/ \E owner \in MemberIDs, pm \in ChannelRoleMaps(g) :
            guilds = (g :> GuildRecord(g, owner, pm))
  /\ \/ members = EmptyMap
     \/ \E gm \in MemberGuildMaps("10", RoleLists) :
          members = ("20" :> MemberRecord("20", gm))
  /\ channels = EmptyMap
  /\ bot = InitialBot
  /\ lastCall = [op |-> "none", memberID |-> "", id |-> ""]
  /\ result = NoResult

\* createChannel(data, guildID) for a channel that is not cached yet
createChannel(data, guildID) ==
  /\ data.id \notin DOMAIN channels
  /\ channels' = (data.id :> channelOf(data, guildID)) @@ channels
  /\ UNCHANGED <<guilds, members, bot, lastCall, result>>

CallComputeChannelOverwrites(memberID, channelID) ==
  /\ lastCall' = [op |-> "computeChannelOverwrites", memberID |-> memberID, id |-> channelID]
  /\ result' = computeChannelOverwrites(memberID, channelID)
  /\ UNCHANGED <<guilds, members, channels, bot>>

NextChannel ==
  \/ \E data \in ChannelPayloads, guildID \in GuildIDs \cup {Undefined} :
       createChannel(data, guildID)
  \/ \E memberID \in MemberIDs, channelID \in ChannelIDs :
       CallComputeChannelOverwrites(memberID, channelID)

SpecChannel == InitChannel /\ [][NextChannel]_vars

(***************************************************************************)
(* Vocabulary of the channel properties.                                   *)
(***************************************************************************)
\* channel c is a guild channel whose guild is in the snapshot
GuildChannel(c) ==
  /\ c \in DOMAIN channels
  /\ ~Falsy(channels[c].guildID)
  /\ channels[c].guildID \in DOMAIN guilds

\* member m is in the snapshot and is no administrator of c's guild
NonAdminMember(m, c) ==
  /\ GuildChannel(c)
  /\ m \in DOMAIN members
  /\ ~IsGuildOwner(m, channels[c].guildID)
  /\ ~HasAdminRole(m, channels[c].guildID)

\* the base set of m in c's guild carries ADMINISTRATOR
AdminMember(m, c) ==
  /\ GuildChannel(c)
  /\ \/ IsGuildOwner(m, channels[c].guildID)
     \/ m \in DOMAIN members /\ HasAdminRole(m, channels[c].guildID)

\* the overwrites of channel c whose identity is id
OverwritesFor(c, id) ==
  {channels[c].permissionOverwrites[i] :
     i \in {j \in DOMAIN channels[c].permissionOverwrites :
              channels[c].permissionOverwrites[j].id = id}}
Allows(c, id, F) == \E o \in OverwritesFor(c, id) : F \in Granted(o.allow)
Denies(c, id, F) == \E o \in OverwritesFor(c, id) : F \in Granted(o.deny)
Mentions(c, id, F) == Allows(c, id, F) \/ Denies(c, id, F)

Flags == BitValues \ {ADMINISTRATOR}

ReturnsSetWith(r, F) == IsSet(r) /\ F \in Granted(r.value)
ReturnsSetWithout(r, F) == IsSet(r) /\ F \notin Granted(r.value)

\* C4: for a guild channel c and a non-administrator member m of the snapshot,
\* when c's everyone overwrite denies F, an overwrite for a role m holds allows
\* F and c has no overwrite for m itself, computeChannelOverwrites(m, c)
\* returns a set with F granted.
C4_RoleAllowBeatsEveryoneDeny ==
  [][\A m \in MemberIDs, c \in ChannelIDs, F \in Flags :
       (/\ CallComputeChannelOverwrites(m, c)
        /\ NonAdminMember(m, c)
        /\ Denies(c, channels[c].guildID, F)
        /\ \E r \in HeldRoles(m, channels[c].guildID) : Allows(c, r, F)
        /\ OverwritesFor(c, m) = {})
         => ReturnsSetWith(result', F)]_vars

\* C5: for a guild channel c and a non-administrator member m of the snapshot,
\* when an overwrite for a role m holds allows F and the overwrite for m itself
\* denies F without allowing it, computeChannelOverwrites(m, c) returns a set
\* with F denied.
C5_MemberDenyBeatsRoleAllow ==
  [][\A m \in MemberIDs, c \in ChannelIDs, F \in Flags :
       (/\ CallComputeChannelOverwrites(m, c)
        /\ NonAdminMember(m, c)
        /\ \E r \in HeldRoles(m, channels[c].guildID) : Allows(c, r, F)
        /\ Denies(c, m, F) /\ ~Allows(c, m, F))
         => ReturnsSetWithout(result', F)]_vars

\* C6: the role tier denies what any overwrite of a held role denies: when m
\* holds role r, c has an overwrite for r denying F and no role or member
\* overwrite allows F, the set computeChannelOverwrites(m, c) returns does not
\* contain F, even though the base set or the everyone overwrite grants it.
C6_RoleDenyApplied ==
  [][\A m \in MemberIDs, c \in ChannelIDs, F \in Flags :
       (/\ CallComputeChannelOverwrites(m, c)
        /\ NonAdminMember(m, c)
        /\ \E r \in HeldRoles(m, channels[c].guildID) : Denies(c, r, F)
        /\ \A r \in HeldRoles(m, channels[c].guildID) : ~Allows(c, r, F)
        /\ ~Allows(c, m, F))
         => ReturnsSetWithout(result', F)]_vars

\* C7: conflicting bits are deny-wins: when an applicable overwrite of c (the
\* everyone overwrite, an overwrite of a held role, the overwrite of m) sets F in
\* both its allow and its deny set and no overwrite of higher precedence
\* mentions F, the set computeChannelOverwrites(m, c) returns has F denied.
C7_ConflictDenyWins ==
  [][\A m \in MemberIDs, c \in ChannelIDs, F \in Flags :
       (/\ CallComputeChannelOverwrites(m, c)
        /\ NonAdminMember(m, c)
        /\ LET g == channels[c].guildID
               Both(id) == \E o \in OverwritesFor(c, id) :
                             F \in Granted(o.allow) /\ F \in Granted(o.deny)
           IN \/ Both(m)
              \/ /\ \E r \in HeldRoles(m, g) : Both(r)
                 /\ ~Mentions(c, m, F)
              \/ /\ Both(g)
                 /\ \A r \in HeldRoles(m, g) : ~Mentions(c, r, F)
                 /\ ~Mentions(c, m, F))
         => ReturnsSetWithout(result', F)]_vars

\* C8: for a guild channel c and a member m whose base set carries
\* ADMINISTRATOR (the guild owner, or the holder of an ADMINISTRATOR role),
\* computeChannelOverwrites(m, c) returns the sentinel whatever the overwrites
\* of c deny.
C8_AdminIgnoresOverwrites ==
  [][\A m \in MemberIDs, c \in ChannelIDs :
       (CallComputeChannelOverwrites(m, c) /\ AdminMember(m, c))
         => result' = Return(Sentinel)]_vars

\* C9: computeChannelOverwrites returns a capability set or fails with
\* CHANNEL_NOT_FOUND, GUILD_NOT_FOUND or MEMBER_NOT_FOUND and in no other way;
\* for a guild channel whose guild and member are in the snapshot it returns a
\* capability set.
C9_SetOrEntityNotFound ==
  [][\A m \in MemberIDs, c \in ChannelIDs :
       CallComputeChannelOverwrites(m, c)
         => /\ \/ IsSet(result')
               \/ /\ result'.threw
                  /\ result'.error \in
                       {"CHANNEL_NOT_FOUND", "GUILD_NOT_FOUND", "MEMBER_NOT_FOUND"}
            /\ (GuildChannel(c) /\ m \in DOMAIN members) => IsSet(result')]_vars

\* C10: for a channel of the snapshot without owning guild (guildID empty),
\* computeChannelOverwrites returns the sentinel for every member ID, whether
\* or not any guild or member is cached and whatever overwrites it carries.
C10_DMChannelSentinel ==
  [][\A m \in MemberIDs, c \in ChannelIDs :
       (/\ CallComputeChannelOverwrites(m, c)
        /\ c \in DOMAIN channels
        /\ channels[c].guildID = "")
         => result' = Return(Sentinel)]_vars

\* a channel created without guild carries a deny overwrite for the member,
\* no guild and no member is cached, and the call returned the sentinel
C10_Witness ==
  \E m \in MemberIDs, c \in ChannelIDs :
    /\ lastCall = [op |-> "computeChannelOverwrites", memberID |-> m, id |-> c]
    /\ c \in DOMAIN channels
    /\ channels[c].guildID = ""
    /\ \E F \in Flags : Denies(c, m, F)
    /\ guilds = EmptyMap
    /\ members = EmptyMap
    /\ result = Return(Sentinel)


\* C11: computeBasePermissions fails with GUILD_NOT_FOUND whenever the guild is
\* not in the snapshot, and with MEMBER_NOT_FOUND whenever the guild is there,
\* the member ID is not its owner's and the member is not in the snapshot; no
\* capability set is returned in either case.
C11_EntityNotFound ==
  \A m \in MemberIDs, g \in GuildIDs :
    BaseCalled(m, g) =>
      /\ g \notin DOMAIN guilds => result = Throw("GUILD_NOT_FOUND")
      /\ (g \in DOMAIN guilds /\ ~IsGuildOwner(m, g) /\ m \notin DOMAIN members)
           => result = Throw("MEMBER_NOT_FOUND")

\* the guild is cached, the member is neither its owner nor cached, and the
\* call failed with MEMBER_NOT_FOUND
C11_Witness ==
  \E m \in MemberIDs, g \in GuildIDs :
    /\ BaseCalled(m, g)
    /\ g \in DOMAIN guilds /\ ~IsGuildOwner(m, g) /\ m \notin DOMAIN members
    /\ result = Throw("MEMBER_NOT_FOUND")


(***************************************************************************)
(* The Permissions enum: a numeric enum, so Object.keys() lists the bit    *)
(* values (reverse mapping) before the names.  The flags the model uses.   *)
(***************************************************************************)
CREATE_INSTANT_INVITE == 1
KICK_MEMBERS == 2
BAN_MEMBERS == 4

PermissionNames ==
  <<"CREATE_INSTANT_INVITE", "KICK_MEMBERS", "BAN_MEMBERS", "ADMINISTRATOR",
    "VIEW_CHANNEL", "SEND_MESSAGES">>

\* Permissions[permission]
Permissions ==
  [CREATE_INSTANT_INVITE |-> CREATE_INSTANT_INVITE,
   KICK_MEMBERS |-> KICK_MEMBERS,
   BAN_MEMBERS |-> BAN_MEMBERS,
   ADMINISTRATOR |-> ADMINISTRATOR,
   VIEW_CHANNEL |-> VIEW_CHANNEL,
   SEND_MESSAGES |-> SEND_MESSAGES]

\* Object.keys(Permissions): the numeric keys, then the names
NumberKey(n) == [numeric |-> TRUE, n |-> n, name |-> ""]
NameKey(name) == [numeric |-> FALSE, n |-> 0, name |-> name]
PermissionKeys ==
  [i \in DOMAIN PermissionNames |-> NumberKey(Permissions[PermissionNames[i]])]
    \o [i \in DOMAIN PermissionNames |-> NameKey(PermissionNames[i])]

(***************************************************************************)
(* validatePermissions, missingPermissions, calculatePermissions,          *)
(* calculateBits                                                           *)
(***************************************************************************)
\* BigInt(permissionBits) & BigInt(Permissions[permission]), as a condition
hasPermission(permissionBits, permission) ==
  BitAnd(BigIntOf(permissionBits), Permissions[permission]) # 0

\* permissions.some(...) in the place of permissions.every(...)
validatePermissions_some(permissionBits, permissions) ==
  IF permissionBits = <<8>> THEN TRUE
  ELSE \E i \in DOMAIN permissions : hasPermission(permissionBits, permissions[i])
validatePermissions(permissionBits, permissions) ==
  IF permissionBits = <<8>> THEN TRUE
  ELSE \A i \in DOMAIN permissions : hasPermission(permissionBits, permissions[i])

\* permissions.forEach: push the permissions that are not in permissionBits
RECURSIVE pushMissing(_, _, _)
pushMissing(permissionBits, permissions, missing) ==
  IF permissions = <<>> THEN missing
  ELSE pushMissing(permissionBits, Tail(permissions),
         IF ~hasPermission(permissionBits, Head(permissions))
           THEN Append(missing, Head(permissions))
           ELSE missing)

\* without the early return for "8"
missingPermissions_noSentinel(permissionBits, permissions) ==
  pushMissing(permissionBits, permissions, <<>>)
missingPermissions(permissionBits, permissions) ==
  IF permissionBits = <<8>> THEN <<>>
  ELSE pushMissing(permissionBits, permissions, <<>>)

\* Object.keys(Permissions).filter(...): Number(key) is truthy for a bit value
\* and NaN for a name
RECURSIVE filterKeys(_, _)
filterKeys(keys, permissionBits) ==
  IF keys = <<>> THEN <<>>
  ELSE LET key == Head(keys)
           rest == filterKeys(Tail(keys), permissionBits)
       IN IF key.numeric /\ key.n # 0 THEN rest
          ELSE IF BitAnd(permissionBits, Permissions[key.name]) # 0
            THEN <<key.name>> \o rest
            ELSE rest

calculatePermissions(permissionBits) == filterKeys(PermissionKeys, permissionBits)

\* permissions.reduce((bits, perm) => bits |= BigInt(Permissions[perm]), BigInt(0))
\* bits += in the place of bits |=
RECURSIVE reducePermissions_sum(_, _)
reducePermissions_sum(permissions, bits) ==
  IF permissions = <<>> THEN bits
  ELSE reducePermissions_sum(Tail(permissions), bits + Permissions[Head(permissions)])

RECURSIVE reducePermissions(_, _)
reducePermissions(permissions, bits) ==
  IF permissions = <<>> THEN bits
  ELSE reducePermissions(Tail(permissions), BitOr(bits, Permissions[Head(permissions)]))

calculateBits(permissions) == toString(reducePermissions(permissions, 0))

(***************************************************************************)
(* The permission set algebra applied to bounded inputs.                   *)
(***************************************************************************)
\* longest list of required permissions
MaxFlags == 2

\* the bit beyond the catalog of the model (MANAGE_CHANNELS in the platform's)
ExtraBit == Pow(2, 4)

FlagLists == UNION {[1..n -> {PermissionNames[i] : i \in DOMAIN PermissionNames}] :
                      n \in 0..MaxFlags}

RECURSIVE SumOf(_)
SumOf(S) == IF S = {} THEN 0 ELSE LET x == CHOOSE x \in S : TRUE IN x + SumOf(S \ {x})

CatalogBits == {Permissions[PermissionNames[i]] : i \in DOMAIN PermissionNames}
\* the bitmasks explored: any bits of the catalog, with or without the extra bit
BitMasks == {SumOf(S) : S \in SUBSET (CatalogBits \cup {ExtraBit})}

\* the inputs of one call: a bitmask (as a bigint and as its decimal string)
\* and a list of required permissions
InitAlgebra ==
  /\ guilds = EmptyMap
  /\ members = EmptyMap
  /\ channels = EmptyMap
  /\ bot = InitialBot
  /\ \E n \in BitMasks, permissions \in FlagLists :
       lastCall = [op |-> "none", bits |-> toString(n), n |-> n,
                   permissions |-> permissions]
  /\ result = NoResult

CallValidatePermissions ==
  /\ lastCall.op = "none"
  /\ lastCall' = [lastCall EXCEPT !.op = "validatePermissions"]
  /\ result' = validatePermissions(lastCall.bits, lastCall.permissions)
  /\ UNCHANGED <<guilds, members, channels, bot>>

CallMissingPermissions ==
  /\ lastCall.op = "none"
  /\ lastCall' = [lastCall EXCEPT !.op = "missingPermissions"]
  /\ result' = missingPermissions(lastCall.bits, lastCall.permissions)
  /\ UNCHANGED <<guilds, members, channels, bot>>

CallCalculatePermissions ==
  /\ lastCall.op = "none"
  /\ lastCall' = [lastCall EXCEPT !.op = "calculatePermissions"]
  /\ result' = calculatePermissions(lastCall.n)
  /\ UNCHANGED <<guilds, members, channels, bot>>

CallCalculateBits ==
  /\ lastCall.op = "none"
  /\ lastCall' = [lastCall EXCEPT !.op = "calculateBits"]
  /\ result' = calculateBits(lastCall.permissions)
  /\ UNCHANGED <<guilds, members, channels, bot>>

NextAlgebra ==
  \/ CallValidatePermissions
  \/ CallMissingPermissions
  \/ CallCalculatePermissions
  \/ CallCalculateBits

SpecAlgebra == InitAlgebra /\ [][NextAlgebra]_vars

\* the bit value of a flag name, and whether a bit string grants the flag
FlagBit(name) ==
  CHOOSE b \in BitValues : \E i \in DOMAIN PermissionNames :
    PermissionNames[i] = name /\ Permissions[name] = b
Grants(bits, name) == FlagBit(name) \in Granted(bits)

\* C12: validatePermissions returns true for the sentinel "8" and any list of
\* flags; for any other set it returns true exactly when every flag of the
\* list has its bit in the set (true for the empty list).
C12_HasAll ==
  lastCall.op = "validatePermissions" =>
    result = (\/ lastCall.bits = Sentinel
              \/ \A i \in DOMAIN lastCall.permissions :
                   Grants(lastCall.bits, lastCall.permissions[i]))

\* a set other than the sentinel holds the first required flag and lacks the
\* second, and the call returned false
C12_Witness ==
  /\ lastCall.op = "validatePermissions"
  /\ lastCall.bits # Sentinel
  /\ Len(lastCall.permissions) = 2
  /\ Grants(lastCall.bits, lastCall.permissions[1])
  /\ ~Grants(lastCall.bits, lastCall.permissions[2])
  /\ result = FALSE

\* C13: missingPermissions returns the empty list for the sentinel; for any
\* other set it returns the flags of the list whose bit is absent, in the
\* caller's order; so it is empty exactly when validatePermissions is true.
C13_Missing ==
  lastCall.op = "missingPermissions" =>
    LET Absent(name) == ~Grants(lastCall.bits, name)
    IN /\ lastCall.bits = Sentinel => result = <<>>
       /\ lastCall.bits # Sentinel => result = SelectSeq(lastCall.permissions, Absent)
       /\ (result = <<>>) <=>
            (\/ lastCall.bits = Sentinel
             \/ \A i \in DOMAIN lastCall.permissions :
                  Grants(lastCall.bits, lastCall.permissions[i]))

\* two flags are required with the higher bit first, the set has neither, and
\* both come back in the caller's order
C13_Witness ==
  /\ lastCall.op = "missingPermissions"
  /\ lastCall.bits # Sentinel
  /\ Len(lastCall.permissions) = 2
  /\ FlagBit(lastCall.permissions[1]) > FlagBit(lastCall.permissions[2])
  /\ result = lastCall.permissions


SeqSet(s) == {s[i] : i \in DOMAIN s}

\* C17: calculatePermissions and calculateBits are inverses on the catalog: for
\* a bitmask x whose bits all belong to the catalog, calculateBits of
\* calculatePermissions(x) denotes x; for a list S of catalog flags,
\* calculatePermissions of calculateBits(S) contains exactly the flags of S.
C17_Inverses ==
  /\ (lastCall.op = "calculatePermissions" /\ BitsOf(lastCall.n) \subseteq CatalogBits)
       => DecimalValue(calculateBits(result)) = lastCall.n
  /\ lastCall.op = "calculateBits"
       => SeqSet(calculatePermissions(BigIntOf(result))) = SeqSet(lastCall.permissions)

\* a bitmask of three catalog bits was expanded into three names that fold
\* back into it
C17_Witness ==
  /\ lastCall.op = "calculatePermissions"
  /\ BitsOf(lastCall.n) \subseteq CatalogBits
  /\ Cardinality(BitsOf(lastCall.n)) = 3
  /\ Len(result) = 3
  /\ DecimalValue(calculateBits(result)) = lastCall.n


(***************************************************************************)
(* hasRolePermissions, the throwOnMissing* functions and their bot*        *)
(* wrappers; setBotID.                                                     *)
(***************************************************************************)
\* Errors[`MISSING_${permission}`]
MissingErrors ==
  [CREATE_INSTANT_INVITE |-> "MISSING_CREATE_INSTANT_INVITE",
   KICK_MEMBERS |-> "MISSING_KICK_MEMBERS",
   BAN_MEMBERS |-> "MISSING_BAN_MEMBERS",
   ADMINISTRATOR |-> "MISSING_ADMINISTRATOR",
   VIEW_CHANNEL |-> "MISSING_VIEW_CHANNEL",
   SEND_MESSAGES |-> "MISSING_SEND_MESSAGES"]

\* an async function that ends without return value
Completed == Return(Undefined)
\* a returned boolean
ReturnBool(b) == Return(b)

\* if (missing.length) throw new Error(Errors[`MISSING_${missing[0]}`])
throwOnMissing(missing) ==
  IF Len(missing) # 0 THEN Throw(MissingErrors[missing[1]]) ELSE Completed

hasRolePermissions(memberID, guildID, permissions) ==
  LET basePermissions == computeBasePermissions(memberID, guildID)
  IN IF basePermissions.threw THEN basePermissions
     ELSE ReturnBool(validatePermissions(basePermissions.value, permissions))

\* return hasRolePermissions(guildID, botID, permissions)
botHasRolePermissions(guildID, permissions) ==
  hasRolePermissions(guildID, bot.botID, permissions)

throwOnMissingGuildPermission(memberID, guildID, permissions) ==
  LET permissionBits == computeBasePermissions(memberID, guildID)
  IN IF permissionBits.threw THEN permissionBits
     ELSE throwOnMissing(missingPermissions(permissionBits.value, permissions))

botThrowOnMissingGuildPermission(guildID, permissions) ==
  throwOnMissingGuildPermission(bot.botID, guildID, permissions)

throwOnMissingChannelPermission(memberID, channelID, permissions) ==
  LET permissionBits == computeChannelOverwrites(memberID, channelID)
  IN IF permissionBits.threw THEN permissionBits
     ELSE throwOnMissing(missingPermissions(permissionBits.value, permissions))

botThrowOnMissingChannelPermission(channelID, permissions) ==
  throwOnMissingChannelPermission(bot.botID, channelID, permissions)

(***************************************************************************)
(* Permission gates: one call on a snapshot, the bot's ID set by READY.    *)
(***************************************************************************)
\* the permissions a caller requires
GateFlags == {"KICK_MEMBERS", "VIEW_CHANNEL", "SEND_MESSAGES"}
GateLists == UNION {[1..n -> GateFlags] : n \in 0..MaxFlags}

\* the channels of the gate runs: none, a direct channel, a channel of guild g
GateChannels(g) ==
  {EmptyMap} \cup
  {("40" :> channelOf(data, Undefined)) :
     data \in {[id |-> "40"], [id |-> "40", guild_id |-> g]}}

InitGate ==
  /\ \E g \in GuildIDs :
       \/ guilds = EmptyMap
       \/ \E owner \in MemberIDs, pm \in ChannelRoleMaps(g) :
            guilds = (g :> GuildRecord(g, owner, pm))
  /\ \/ members = EmptyMap
     \/ \E gm \in MemberGuildMaps("10", {<<>>, <<"30">>}) :
          members = ("20" :> MemberRecord("20", gm))
  /\ channels \in GateChannels("10")
  /\ bot = InitialBot
  /\ lastCall = [op |-> "none", memberID |-> "", id |-> "", permissions |-> <<>>]
  /\ result = NoResult

\* setBotID(id): if (botID !== id) botID = id
setBotID(id) ==
  /\ bot' = IF bot.botID # id THEN [bot EXCEPT !.botID = id] ELSE bot
  /\ UNCHANGED <<guilds, members, channels, lastCall, result>>

GateCall(op, memberID, id, permissions, completion) ==
  /\ lastCall.op = "none"
  /\ lastCall' = [op |-> op, memberID |-> memberID, id |-> id,
                  permissions |-> permissions]
  /\ result' = completion
  /\ UNCHANGED <<guilds, members, channels, bot>>

CallHasRolePermissions(memberID, guildID, permissions) ==
  GateCall("hasRolePermissions", memberID, guildID, permissions,
           hasRolePermissions(memberID, guildID, permissions))

CallBotHasRolePermissions(guildID, permissions) ==
  GateCall("botHasRolePermissions", "", guildID, permissions,
           botHasRolePermissions(guildID, permissions))

CallThrowOnMissingGuildPermission(memberID, guildID, permissions) ==
  GateCall("throwOnMissingGuildPermission", memberID, guildID, permissions,
           throwOnMissingGuildPermission(memberID, guildID, permissions))

CallBotThrowOnMissingGuildPermission(guildID, permissions) ==
  GateCall("botThrowOnMissingGuildPermission", "", guildID, permissions,
           botThrowOnMissingGuildPermission(guildID, permissions))

CallThrowOnMissingChannelPermission(memberID, channelID, permissions) ==
  GateCall("throwOnMissingChannelPermission", memberID, channelID, permissions,
           throwOnMissingChannelPermission(memberID, channelID, permissions))

CallBotThrowOnMissingChannelPermission(channelID, permissions) ==
  GateCall("botThrowOnMissingChannelPermission", "", channelID, permissions,
           botThrowOnMissingChannelPermission(channelID, permissions))

NextGate ==
  \/ \E id \in MemberIDs : setBotID(id)
  \/ \E m \in MemberIDs, g \in GuildIDs, permissions \in GateLists :
       CallHasRolePermissions(m, g, permissions)
  \/ \E g \in GuildIDs, permissions \in GateLists :
       CallBotHasRolePermissions(g, permissions)
  \/ \E m \in MemberIDs, g \in GuildIDs, permissions \in GateLists :
       CallThrowOnMissingGuildPermission(m, g, permissions)
  \/ \E g \in GuildIDs, permissions \in GateLists :
       CallBotThrowOnMissingGuildPermission(g, permissions)
  \/ \E m \in MemberIDs, c \in ChannelIDs, permissions \in GateLists :
       CallThrowOnMissingChannelPermission(m, c, permissions)
  \/ \E c \in ChannelIDs, permissions \in GateLists :
       CallBotThrowOnMissingChannelPermission(c, permissions)

SpecGate == InitGate /\ [][NextGate]_vars


\* the set resolved for member m in guild g exists: both entities are found
ResolvesInGuild(m, g) ==
  /\ g \in DOMAIN guilds
  /\ IsGuildOwner(m, g) \/ m \in DOMAIN members

\* the set resolved for member m in guild g lacks the named flag
GuildSetLacks(m, g, name) ==
  /\ ~IsGuildOwner(m, g)
  /\ ~HasAdminRole(m, g)
  /\ FlagBit(name) \notin UNION {RoleGrants(g, r) : r \in ApplicableRoles(m, g)}

\* completion, or the error of the first flag of the list that is lacking
FirstMissing(permissions, lacking) ==
  IF lacking = {} THEN Completed
  ELSE LET first == CHOOSE i \in lacking : \A j \in lacking : i <= j
       IN Throw(MissingErrors[permissions[first]])

GateCalled(op, m, id) ==
  /\ lastCall.op = op
  /\ lastCall.memberID = m
  /\ lastCall.id = id

\* C14 (guild half): throwOnMissingGuildPermission completes when the set
\* resolved for the member in the guild lacks none of the requested flags, and
\* otherwise fails with MISSING_<F>, F the first requested flag that is lacking.
C14_GuildFirstMissing ==
  \A m \in MemberIDs, g \in GuildIDs :
    (GateCalled("throwOnMissingGuildPermission", m, g) /\ ResolvesInGuild(m, g)) =>
      result = FirstMissing(lastCall.permissions,
                 {i \in DOMAIN lastCall.permissions :
                    GuildSetLacks(m, g, lastCall.permissions[i])})

\* two requested flags are lacking and the error names the first of them
C14_GuildWitness ==
  \E m \in MemberIDs, g \in GuildIDs :
    /\ GateCalled("throwOnMissingGuildPermission", m, g)
    /\ ResolvesInGuild(m, g)
    /\ Len(lastCall.permissions) = 2
    /\ lastCall.permissions[1] # lastCall.permissions[2]
    /\ \A i \in 1..2 : GuildSetLacks(m, g, lastCall.permissions[i])
    /\ result = Throw(MissingErrors[lastCall.permissions[1]])

\* C14: throwOnMissingGuildPermission and throwOnMissingChannelPermission
\* complete without error when the resolved set lacks none of the requested
\* flags, and otherwise fail with exactly one error MISSING_<F>, F being the
\* first requested flag, in list order, that the resolved set lacks.  (The
\* channels of these runs carry no overwrites, so the set resolved in a guild
\* channel is the member's base set in the channel's guild; in a direct
\* channel it is the sentinel.)
C14_FirstMissing ==
  /\ C14_GuildFirstMissing
  /\ \A m \in MemberIDs, c \in ChannelIDs :
       (GateCalled("throwOnMissingChannelPermission", m, c) /\ c \in DOMAIN channels) =>
         /\ Falsy(channels[c].guildID) => result = Completed
         /\ (GuildChannel(c) /\ ResolvesInGuild(m, channels[c].guildID)) =>
              result = FirstMissing(lastCall.permissions,
                         {i \in DOMAIN lastCall.permissions :
                            GuildSetLacks(m, channels[c].guildID, lastCall.permissions[i])})


\* C19: botHasRolePermissions(guildID, permissions) returns the same result, or
\* fails the same way, as hasRolePermissions(botID, guildID, permissions): for
\* a bot that owns the guild it returns true, for a guild that is not cached it
\* fails with GUILD_NOT_FOUND.
C19_BotHasRolePermissions ==
  [][\A g \in GuildIDs, permissions \in GateLists :
       CallBotHasRolePermissions(g, permissions) =>
         /\ result' = hasRolePermissions(bot.botID, g, permissions)
         /\ (g \in DOMAIN guilds /\ IsGuildOwner(bot.botID, g))
              => result' = ReturnBool(TRUE)]_vars


(***************************************************************************)
(* Role ranking: highestRole, higherRolePosition, isHigherPosition.        *)
(***************************************************************************)
MaxPosition == 2
RankRoleIDs == {"99", "100", "150", "200"}

\* the characters of an ID string (decimal digits, ordered as their code units)
CodeUnits ==
  [id \in RankRoleIDs \cup GuildIDs |->
     CASE id = "10" -> <<1, 0>>
       [] id = "99" -> <<9, 9>>
       [] id = "100" -> <<1, 0, 0>>
       [] id = "150" -> <<1, 5, 0>>
       [] id = "200" -> <<2, 0, 0>>]

\* a < b on strings: the first differing character decides, a proper prefix is less
StringLess(a, b) ==
  LET x == CodeUnits[a]
      y == CodeUnits[b]
  IN \E k \in 0..Len(x) :
       /\ k <= Len(y)
       /\ \A i \in 1..k : x[i] = y[i]
       /\ \/ k = Len(x) /\ k < Len(y)
          \/ k < Len(x) /\ k < Len(y) /\ x[k + 1] < y[k + 1]

\* Collection.get: the value, or undefined as the empty list
Get(map, key) == IF key \in DOMAIN map THEN <<map[key]>> ELSE <<>>

\* the for...of loop of highestRole over memberRoles[i..]
RECURSIVE highestOf(_, _, _, _)
highestOf(guild, memberRoles, i, memberHighestRole) ==
  IF i > Len(memberRoles) THEN memberHighestRole
  ELSE LET role == Get(guild.roles, memberRoles[i])
       IN IF role = <<>> THEN highestOf(guild, memberRoles, i + 1, memberHighestRole)
          ELSE IF memberHighestRole = <<>> \/ memberHighestRole[1].position < role[1].position
            THEN highestOf(guild, memberRoles, i + 1, role)
            ELSE highestOf(guild, memberRoles, i + 1, memberHighestRole)

highestRole(guildID, memberID) ==
  IF guildID \notin DOMAIN guilds THEN Throw("GUILD_NOT_FOUND")
  ELSE LET guild == guilds[guildID]
       IN IF memberID \notin DOMAIN members \/ guildID \notin DOMAIN members[memberID].guilds
            THEN Return(Get(guild.roles, guildID))
            ELSE Return(highestOf(guild, members[memberID].guilds[guildID].roles, 1, <<>>))

\* role.position === otherRole.position ? role.id < otherRole.id
\*                                      : role.position > otherRole.position
positionHigher(role, otherRole) ==
  IF role.position = otherRole.position THEN StringLess(role.id, otherRole.id)
  ELSE role.position > otherRole.position

higherRolePosition(guildID, roleID, otherRoleID) ==
  IF guildID \notin DOMAIN guilds THEN Throw("GUILD_NOT_FOUND")
  ELSE LET guild == guilds[guildID]
           role == Get(guild.roles, roleID)
           otherRole == Get(guild.roles, otherRoleID)
       IN IF role = <<>> \/ otherRole = <<>> THEN Throw("ROLE_NOT_FOUND")
          ELSE ReturnBool(positionHigher(role[1], otherRole[1]))

isHigherPosition(guildID, memberID, compareRoleID) ==
  IF guildID \notin DOMAIN guilds THEN Throw("GUILD_NOT_FOUND")
  ELSE LET guild == guilds[guildID]
       IN IF guild.ownerID = memberID THEN ReturnBool(TRUE)
          ELSE LET memberHighestRole == highestRole(guildID, memberID)
                   compareRole == Get(guild.roles, compareRoleID)
               IN IF memberHighestRole.threw THEN memberHighestRole
                  ELSE IF memberHighestRole.value = <<>> \/ compareRole = <<>>
                    THEN Throw("ROLE_NOT_FOUND")
                    ELSE ReturnBool(positionHigher(memberHighestRole.value[1],
                                                   compareRole[1]))


(***************************************************************************)
(* Ranking runs: one guild whose roles have positions, one member.         *)
(***************************************************************************)
RankedRole(id, position) == [RoleRecord(id, <<0>>) EXCEPT !.position = position]

\* the everyone role at position 0 and any of the other roles at 1..MaxPosition
RankedRoleMaps(g) ==
  UNION {{[r \in {g} \cup D |-> RankedRole(r, IF r = g THEN 0 ELSE pos[r])] :
            pos \in [D -> 1..MaxPosition]} : D \in SUBSET RankRoleIDs}

RankedRoleLists ==
  {s \in UNION {[1..n -> RankRoleIDs] : n \in 0..MaxRoles} :
     \A i, j \in DOMAIN s : i # j => s[i] # s[j]}

InitRank ==
  /\ \/ guilds = EmptyMap
     \/ \E roles \in RankedRoleMaps("10") :
          guilds = ("10" :> [id |-> "10", ownerID |-> "20", roles |-> roles])
  /\ \/ members = EmptyMap
     \/ \E gm \in MemberGuildMaps("10", RankedRoleLists) :
          members = ("21" :> MemberRecord("21", gm))
  /\ channels = EmptyMap
  /\ bot = InitialBot
  /\ lastCall = [op |-> "none", id |-> "", memberID |-> "", roleID |-> "",
                 otherRoleID |-> ""]
  /\ result = NoResult

RankCall(op, guildID, memberID, roleID, otherRoleID, completion) ==
  /\ lastCall.op = "none"
  /\ lastCall' = [op |-> op, id |-> guildID, memberID |-> memberID,
                  roleID |-> roleID, otherRoleID |-> otherRoleID]
  /\ result' = completion
  /\ UNCHANGED <<guilds, members, channels, bot>>

CallHighestRole(guildID, memberID) ==
  RankCall("highestRole", guildID, memberID, "", "", highestRole(guildID, memberID))

CallHigherRolePosition(guildID, roleID, otherRoleID) ==
  RankCall("higherRolePosition", guildID, "", roleID, otherRoleID,
           higherRolePosition(guildID, roleID, otherRoleID))

CallIsHigherPosition(guildID, memberID, compareRoleID) ==
  RankCall("isHigherPosition", guildID, memberID, compareRoleID, "",
           isHigherPosition(guildID, memberID, compareRoleID))

\* get guild(): cache.guilds.find((g) => g.roles.has(this.id))
guildOfRole(role) ==
  LET having == {g \in DOMAIN guilds : role.id \in DOMAIN guilds[g].roles}
  IN IF having = {} THEN <<>> ELSE <<guilds[CHOOSE g \in having : TRUE]>>

\* if (!position) position = this.guild?.roles.get(roleID)?.position
\* (an optional number is the empty list or the number; 0 is falsy)
positionOrCached(role, roleID, position) ==
  IF position # <<>> /\ position[1] # 0 THEN position
  ELSE LET guild == guildOfRole(role)
       IN IF guild = <<>> \/ roleID \notin DOMAIN guild[1].roles THEN <<>>
          ELSE <<guild[1].roles[roleID].position>>

\* baseRole.higherThanRoleID(roleID, position?) called on role
higherThanRoleID(role, roleID, position) ==
  LET found == positionOrCached(role, roleID, position)
  IN IF found = <<>> \/ found[1] = 0 THEN Throw("role.higherThanRoleID()")
     ELSE IF role.position = found[1] THEN ReturnBool(StringLess(role.id, roleID))
     ELSE ReturnBool(role.position > found[1])

\* role.higherThanRoleID(otherRoleID, position) on a cached role of the guild;
\* the caller passes the other role's position or none
CallHigherThanRoleID(guildID, roleID, otherRoleID, position) ==
  /\ lastCall.op = "none"
  /\ guildID \in DOMAIN guilds
  /\ roleID \in DOMAIN guilds[guildID].roles
  /\ lastCall' = [op |-> "higherThanRoleID", id |-> guildID, memberID |-> "",
                  roleID |-> roleID, otherRoleID |-> otherRoleID,
                  position |-> position]
  /\ result' = higherThanRoleID(guilds[guildID].roles[roleID], otherRoleID, position)
  /\ UNCHANGED <<guilds, members, channels, bot>>

\* the positions a caller passes for a role: none, or the role's position
PositionsFor(guildID, roleID) ==
  {<<>>} \cup IF guildID \in DOMAIN guilds /\ roleID \in DOMAIN guilds[guildID].roles
                THEN {<<guilds[guildID].roles[roleID].position>>} ELSE {}

NextRank ==
  \/ \E g \in GuildIDs, m \in MemberIDs : CallHighestRole(g, m)
  \/ \E g \in GuildIDs, r, o \in RankRoleIDs \cup GuildIDs :
       CallHigherRolePosition(g, r, o)
  \/ \E g \in GuildIDs, m \in MemberIDs, r \in RankRoleIDs \cup GuildIDs :
       CallIsHigherPosition(g, m, r)
  \/ \E g \in GuildIDs, r, o \in RankRoleIDs \cup GuildIDs :
       \E position \in PositionsFor(g, o) : CallHigherThanRoleID(g, r, o, position)

SpecRank == InitRank /\ [][NextRank]_vars


\* the numeric value of a role's identity
IdentityValue(role) == DecimalValue(CodeUnits[role.id])

\* role a outranks role b: larger position, or equal positions and the
\* numerically smaller identity
Outranks(a, b) ==
  \/ a.position > b.position
  \/ a.position = b.position /\ IdentityValue(a) < IdentityValue(b)

RankCalled(op) == lastCall.op = op /\ lastCall.id \in DOMAIN guilds
RolesOf(g) == {guilds[g].roles[r] : r \in DOMAIN guilds[g].roles}

\* C15 (order half): for two distinct roles of a guild exactly one is reported
\* higher than the other, and no role is reported higher than itself.
C15_StrictTotalOrder ==
  \A g \in DOMAIN guilds : \A a, b \in DOMAIN guilds[g].roles :
    /\ higherRolePosition(g, a, a) = ReturnBool(FALSE)
    /\ a # b => \/ /\ higherRolePosition(g, a, b) = ReturnBool(TRUE)
                   /\ higherRolePosition(g, b, a) = ReturnBool(FALSE)
                \/ /\ higherRolePosition(g, a, b) = ReturnBool(FALSE)
                   /\ higherRolePosition(g, b, a) = ReturnBool(TRUE)

\* C15: higherRolePosition(g, a, b) is true exactly when a.position >
\* b.position, or the positions are equal and a's identity is numerically
\* smaller than b's, for identities of any length; it is a strict total order
\* on the guild's roles.
C15_NumericTieBreak ==
  /\ C15_StrictTotalOrder
  /\ (/\ RankCalled("higherRolePosition")
      /\ lastCall.roleID \in DOMAIN guilds[lastCall.id].roles
      /\ lastCall.otherRoleID \in DOMAIN guilds[lastCall.id].roles)
       => result = ReturnBool(Outranks(guilds[lastCall.id].roles[lastCall.roleID],
                                       guilds[lastCall.id].roles[lastCall.otherRoleID]))

\* C15 restricted to identities of one length
C15_SameLengthTieBreak ==
  (/\ RankCalled("higherRolePosition")
   /\ lastCall.roleID \in DOMAIN guilds[lastCall.id].roles
   /\ lastCall.otherRoleID \in DOMAIN guilds[lastCall.id].roles
   /\ Len(CodeUnits[lastCall.roleID]) = Len(CodeUnits[lastCall.otherRoleID]))
    => result = ReturnBool(Outranks(guilds[lastCall.id].roles[lastCall.roleID],
                                    guilds[lastCall.id].roles[lastCall.otherRoleID]))

\* the roles member m holds in guild g that exist in the guild
RankedHeld(m, g) ==
  {r \in RolesOf(g) : \E i \in DOMAIN members[m].guilds[g].roles :
                        members[m].guilds[g].roles[i] = r.id}

\* C16: isHigherPosition returns true for the guild owner; for another member
\* holding at least one role of the guild it returns Outranks(h, compareRole),
\* h being the held role that outranks every other held role.
C16_MemberOutranks ==
  RankCalled("isHigherPosition") =>
    LET g == lastCall.id
        m == lastCall.memberID
    IN /\ guilds[g].ownerID = m => result = ReturnBool(TRUE)
       /\ (/\ guilds[g].ownerID # m
           /\ m \in DOMAIN members
           /\ g \in DOMAIN members[m].guilds
           /\ RankedHeld(m, g) # {}
           /\ lastCall.roleID \in DOMAIN guilds[g].roles)
            => LET h == CHOOSE r \in RankedHeld(m, g) :
                          \A o \in RankedHeld(m, g) \ {r} : Outranks(r, o)
               IN result = ReturnBool(Outranks(h, guilds[g].roles[lastCall.roleID]))


(***************************************************************************)
(* startBigBrainBot                                                        *)
(***************************************************************************)
\* the shards one worker takes by default, and the gateway's shard count from
\* which the default applies
ShardsPerWorker == 25

MaxFirstShardID == 1
MaxLastShardID == 2

\* data.intents.reduce((bits, next) => (bits |= next), 0)
RECURSIVE reduceIntents(_, _)
reduceIntents(intents, bits) ==
  IF intents = <<>> THEN bits
  ELSE reduceIntents(Tail(intents), BitOr(bits, Head(intents)))

\* data.lastShardID || botGatewayData.shards >= 25
\*   ? (data.firstShardID + 25) : botGatewayData.shards
lastShardArgument(data, gateway) ==
  IF \/ (data.lastShardID # <<>> /\ data.lastShardID[1] # 0)
     \/ gateway.shards >= ShardsPerWorker
    THEN data.firstShardID + ShardsPerWorker
    ELSE gateway.shards

\* an optional string of the config is applied when it is truthy
OrKeep(option, current) == IF Falsy(option) THEN current ELSE option

BigBrainBotConfigs ==
  [token : {"t"},
   intents : {<<1, 2>>},
   compress : BOOLEAN,
   eventHandlers : {"handlers"},
   restURL : {Undefined, "rest"},
   cdnURL : {"cdn"},
   wsURL : {Undefined, "ws"},
   firstShardID : 0..MaxFirstShardID,
   lastShardID : {<<>>} \cup {<<n>> : n \in 0..MaxLastShardID}]

\* the answers of GET /gateway/bot
GatewayData == [url : {"gw"}, shards : {1, ShardsPerWorker}]

startBigBrainBot(data, gateway) ==
  /\ bot' = [bot EXCEPT
       !.authorization = "Bot " \o data.token,
       !.token = "Bot " \o data.token,
       !.restURL = OrKeep(data.restURL, @),
       !.cdnURL = OrKeep(data.cdnURL, @),
       !.eventHandlers = OrKeep(data.eventHandlers, @),
       !.compress = IF data.compress THEN data.compress ELSE @,
       !.intents = reduceIntents(data.intents, 0),
       !.botGatewayData = <<gateway>>,
       !.proxyWSURL = IF Falsy(data.wsURL) THEN gateway.url ELSE data.wsURL,
       !.spawned = <<[firstShardID |-> data.firstShardID,
                      lastShardID |-> lastShardArgument(data, gateway)]>>]
  /\ lastCall' = [op |-> "startBigBrainBot", data |-> data]
  /\ result' = Completed
  /\ UNCHANGED <<guilds, members, channels>>

InitStart ==
  /\ guilds = EmptyMap
  /\ members = EmptyMap
  /\ channels = EmptyMap
  /\ bot = InitialBot
  /\ lastCall = [op |-> "none"]
  /\ result = NoResult

NextStart ==
  \/ \E id \in MemberIDs : setBotID(id)
  \/ \E data \in BigBrainBotConfigs, gateway \in GatewayData :
       startBigBrainBot(data, gateway)

SpecStart == InitStart /\ [][NextStart]_vars

\* C20: when the config provides lastShardID, startBigBrainBot hands that value
\* to spawnShards as the last shard; firstShardID + 25 is handed over only
\* when lastShardID is not provided.
C20_LastShardPassed ==
  (lastCall.op = "startBigBrainBot" /\ lastCall.data.lastShardID # <<>>) =>
    bot.spawned = <<[firstShardID |-> lastCall.data.firstShardID,
                     lastShardID |-> lastCall.data.lastShardID[1]]>>


(***************************************************************************)
(* Concurrent calls.  An async engine function is in flight from its call  *)
(* to its completion and other calls, and writers of the cache, run in     *)
(* between; a synchronous one runs in one step.  lastCall holds the call   *)
(* in flight of each slot, result the latest completion and the function   *)
(* it is the completion of.                                                *)
(***************************************************************************)
FrameSlots == {"a", "b"}

\* [...roles, guildID] is a new array: the cached role list keeps its elements
\* (roles.push(guildID) would add to the cached list)
cachedRolesAfterSpread_push(roles, guildID) == roles \o <<guildID>>
cachedRolesAfterSpread(roles, guildID) == roles

\* the members table after the body of computeBasePermissions has run
membersAfterBase(memberID, guildID) ==
  IF /\ guildID \in DOMAIN guilds
     /\ ~isOwner(guilds[guildID], memberID)
     /\ memberID \in DOMAIN members
     /\ hasGuildMember(members[memberID], guildID)
    THEN [members EXCEPT ![memberID].guilds[guildID].roles =
                           cachedRolesAfterSpread(@, guildID)]
    ELSE members

Idle == [op |-> "idle", memberID |-> "", id |-> "", roleID |-> "",
         otherRoleID |-> "", permissions |-> <<>>, floating |-> FALSE]
AsyncCall(op, memberID, id) == [Idle EXCEPT !.op = op, !.memberID = memberID, !.id = id]
GatedCall(op, memberID, id, permissions) ==
  [AsyncCall(op, memberID, id) EXCEPT !.permissions = permissions]
RoleCall(op, memberID, id, roleID, otherRoleID) ==
  [AsyncCall(op, memberID, id) EXCEPT !.roleID = roleID, !.otherRoleID = otherRoleID]

\* the calls a caller may make; a bot* wrapper reads botID when it is called
\* and hands it on (botHasRolePermissions in the place of the member's guild)
FramePermissions == {<<"SEND_MESSAGES">>}
FrameCalls ==
  {AsyncCall(op, "21", "10") : op \in {"computeBasePermissions", "highestRole"}}
  \cup {AsyncCall("computeChannelOverwrites", "21", "40")}
  \cup {GatedCall("hasRolePermissions", "21", "10", p) : p \in FramePermissions}
  \cup {GatedCall("hasRolePermissions", "10", bot.botID, p) : p \in FramePermissions}
  \cup {GatedCall("throwOnMissingGuildPermission", bot.botID, "10", p) :
          p \in FramePermissions}
  \cup {GatedCall("throwOnMissingChannelPermission", bot.botID, "40", p) :
          p \in FramePermissions}
  \cup {RoleCall("higherRolePosition", "", "10", "99", "100")}
  \cup {RoleCall("isHigherPosition", "21", "10", "99", "")}

\* the completion of a call in flight, from the cache as it is now
Evaluate(call) ==
  CASE call.op = "computeBasePermissions" ->
         computeBasePermissions(call.memberID, call.id)
    [] call.op = "computeChannelOverwrites" ->
         computeChannelOverwrites(call.memberID, call.id)
    [] call.op = "hasRolePermissions" ->
         hasRolePermissions(call.memberID, call.id, call.permissions)
    [] call.op = "throwOnMissingGuildPermission" ->
         throwOnMissingGuildPermission(call.memberID, call.id, call.permissions)
    [] call.op = "throwOnMissingChannelPermission" ->
         throwOnMissingChannelPermission(call.memberID, call.id, call.permissions)
    [] call.op = "highestRole" -> highestRole(call.id, call.memberID)
    [] call.op = "higherRolePosition" ->
         higherRolePosition(call.id, call.roleID, call.otherRoleID)
    [] call.op = "isHigherPosition" ->
         isHigherPosition(call.id, call.memberID, call.roleID)

\* the calls whose completion runs the body of computeBasePermissions
RunsBase(call) ==
  call.op \in {"computeBasePermissions", "hasRolePermissions",
               "throwOnMissingGuildPermission"}

\* computeChannelOverwrites leaves its call of computeBasePermissions behind
\* (line 73 does not await it) whenever the channel has a guildID
LeavesBaseBehind(call) ==
  /\ call.op \in {"computeChannelOverwrites", "throwOnMissingChannelPermission"}
  /\ call.id \in DOMAIN channels
  /\ ~isDMChannel(channels[call.id])


\* a completion with its value in printed form, the values of the engine
\* functions being of several types (boolean, string, list, role, undefined)
Settled(op, completion) ==
  [call |-> op, threw |-> completion.threw, error |-> completion.error,
   value |-> ToString(completion.value)]

\* a caller calls an async engine function
Begin(slot, call) ==
  /\ lastCall[slot] = Idle
  /\ lastCall' = [lastCall EXCEPT ![slot] = call]
  /\ UNCHANGED <<guilds, members, channels, bot, result>>

\* the call in flight of a slot completes: it returns or fails
Finish(slot) ==
  LET call == lastCall[slot]
  IN /\ call # Idle
     /\ ~call.floating
     /\ result' = Settled(call.op, Evaluate(call))
     /\ members' = IF RunsBase(call) THEN membersAfterBase(call.memberID, call.id)
                   ELSE members
     /\ lastCall' = [lastCall EXCEPT ![slot] =
          IF LeavesBaseBehind(call)
            THEN [AsyncCall("computeBasePermissions", call.memberID,
                            channels[call.id].guildID) EXCEPT !.floating = TRUE]
            ELSE Idle]
     /\ UNCHANGED <<guilds, channels, bot>>

\* the computeBasePermissions left behind by computeChannelOverwrites runs to
\* its end; nobody receives its completion
FinishLeftBehind(slot) ==
  LET call == lastCall[slot]
  IN /\ call # Idle
     /\ call.floating
     /\ members' = membersAfterBase(call.memberID, call.id)
     /\ lastCall' = [lastCall EXCEPT ![slot] = Idle]
     /\ UNCHANGED <<guilds, channels, bot, result>>

\* a synchronous engine function is called and returns
SyncCall(op, completion) ==
  /\ result' = Settled(op, Return(completion))
  /\ UNCHANGED <<guilds, members, channels, bot, lastCall>>

FrameBits == {toString(SEND_MESSAGES)}

\* the channels created while calls are in flight
FrameChannelPayloads ==
  {[id |-> "40"],
   [id |-> "40", guild_id |-> "10", permission_overwrites |-> <<>>]}

InitFrame ==
  /\ guilds = ("10" :> [id |-> "10", ownerID |-> "20",
                        roles |-> [r \in {"10", "99", "100"} |->
                                     RankedRole(r, IF r = "10" THEN 0 ELSE 1)]])
  /\ \/ members = EmptyMap
     \/ members = ("21" :> MemberRecord("21", ("10" :> [roles |-> <<"100", "99">>])))
  /\ channels = EmptyMap
  /\ bot = InitialBot
  /\ lastCall = [slot \in FrameSlots |-> Idle]
  /\ result = Settled("none", NoResult)

EngineStep ==
  \/ \E slot \in FrameSlots : \E call \in FrameCalls : Begin(slot, call)
  \/ \E slot \in FrameSlots : Finish(slot)
  \/ \E slot \in FrameSlots : FinishLeftBehind(slot)
  \/ \E bits \in FrameBits, p \in FramePermissions :
       SyncCall("validatePermissions", validatePermissions(bits, p))
  \/ \E bits \in FrameBits, p \in FramePermissions :
       SyncCall("missingPermissions", missingPermissions(bits, p))
  \/ \E bits \in FrameBits : SyncCall("calculatePermissions", calculatePermissions(BigIntOf(bits)))
  \/ \E p \in FramePermissions : SyncCall("calculateBits", calculateBits(p))

NextFrame ==
  \/ EngineStep
  \/ setBotID("21")
  \/ \E data \in FrameChannelPayloads : createChannel(data, Undefined)

SpecFrame == InitFrame /\ [][NextFrame]_vars

\* C18: no step of an engine operation (a call, its completion by return or by
\* failure, the completion of a call left behind) changes the guilds and their
\* roles, the members and their role lists, or the channels and their
\* overwrites, however the calls in flight, setBotID and createChannel
\* interleave.
C18_EngineReadOnly ==
  [][EngineStep => UNCHANGED <<guilds, members, channels>>]_vars

\* a call failed while another call is in flight, a member with roles and a
\* channel created in between are cached
C18_Witness ==
  /\ result.threw
  /\ \E slot \in FrameSlots : lastCall[slot] # Idle
  /\ channels # EmptyMap
  /\ "21" \in DOMAIN members /\ "10" \in DOMAIN members["21"].guilds
  /\ members["21"].guilds["10"].roles # <<>>


(***************************************************************************)
(* The REST server: startRESTServer hands every request to handlePayload.  *)
(***************************************************************************)
\* request.headers.get("authorization"): null when the header is missing
Null == "null"
Headers == {Null, "", "secret", "other"}

\* JSON.parse(new TextDecoder().decode(buffer)) for the bodies sent: a
\* SyntaxError, null, a number, a string, or an object with its properties
JSONParse(text) ==
  CASE text = "" -> [type |-> "SyntaxError", props |-> <<>>]
    [] text = "{" -> [type |-> "SyntaxError", props |-> <<>>]
    [] text = "null" -> [type |-> "null", props |-> <<>>]
    [] text = "5" -> [type |-> "number", props |-> <<>>]
    [] text = "{}" -> [type |-> "object", props |-> <<>>]
    [] text = "\"url\"" -> [type |-> "string", props |-> <<>>]
    [] text = "{\"url\":\"/u\"}" -> [type |-> "object", props |-> [url |-> "/u"]]
    [] text = "{\"method\":\"GET\"}" -> [type |-> "object", props |-> [method |-> "GET"]]
    [] text = "{\"url\":\"\",\"method\":\"GET\"}" ->
         [type |-> "object", props |-> [url |-> "", method |-> "GET"]]
    [] text = "{\"url\":\"/u\",\"method\":\"\"}" ->
         [type |-> "object", props |-> [url |-> "/u", method |-> ""]]
    [] text = "{\"url\":\"/u\",\"method\":\"GET\"}" ->
         [type |-> "object", props |-> [url |-> "/u", method |-> "GET"]]
    [] text = "{\"url\":\"/u\",\"method\":\"GET\",\"body\":\"b\"}" ->
         [type |-> "object", props |-> [url |-> "/u", method |-> "GET", body |-> "b"]]
    [] text = "{\"url\":\"/v\",\"method\":\"POST\",\"body\":\"b\"}" ->
         [type |-> "object", props |-> [url |-> "/v", method |-> "POST", body |-> "b"]]

Bodies ==
  {"", "{", "null", "5", "{}", "\"url\"", "{\"url\":\"/u\"}", "{\"method\":\"GET\"}",
   "{\"url\":\"\",\"method\":\"GET\"}", "{\"url\":\"/u\",\"method\":\"\"}",
   "{\"url\":\"/u\",\"method\":\"GET\"}",
   "{\"url\":\"/u\",\"method\":\"GET\",\"body\":\"b\"}",
   "{\"url\":\"/v\",\"method\":\"POST\",\"body\":\"b\"}"}

\* data.url, data.method, data.body: undefined for a property that is not there
Property(data, name) == field(data.props, name, Undefined)

\* what handlePayload did with a request
Handled(bodyRead, responses, processed, errors) ==
  [bodyRead |-> bodyRead, responses |-> responses, processed |-> processed,
   errors |-> errors]
BadRequest(error) == [status |-> 400, body |-> error]

\* the try block of handlePayload, the body read
\* (without the test of data.url)
parseAndProcess_noURLTest(data, rejects) ==
  IF data.type = "SyntaxError" THEN Handled(TRUE, <<>>, <<>>, <<"SyntaxError">>)
  ELSE IF data.type = "null" THEN Handled(TRUE, <<>>, <<>>, <<"TypeError">>)
  ELSE IF Falsy(Property(data, "method"))
    THEN Handled(TRUE, <<BadRequest("No METHOD was provided.")>>, <<>>, <<>>)
  ELSE Handled(TRUE, <<>>,
               <<[method |-> Property(data, "method"), url |-> Property(data, "url"),
                  body |-> Property(data, "body"), retryCount |-> 0]>>,
               IF rejects THEN <<"processRequest">> ELSE <<>>)
parseAndProcess(data, rejects) ==
  IF data.type = "SyntaxError" THEN Handled(TRUE, <<>>, <<>>, <<"SyntaxError">>)
  ELSE IF data.type = "null" THEN Handled(TRUE, <<>>, <<>>, <<"TypeError">>)
  ELSE IF Falsy(Property(data, "url"))
    THEN Handled(TRUE, <<BadRequest("No URL was provided.")>>, <<>>, <<>>)
  ELSE IF Falsy(Property(data, "method"))
    THEN Handled(TRUE, <<BadRequest("No METHOD was provided.")>>, <<>>, <<>>)
  ELSE Handled(TRUE, <<>>,
               <<[method |-> Property(data, "method"), url |-> Property(data, "url"),
                  body |-> Property(data, "body"), retryCount |-> 0]>>,
               IF rejects THEN <<"processRequest">> ELSE <<>>)

\* if (authorization !== options.authorization) return
isAuthorized(authorization, options) == authorization = options.authorization

handlePayloadOutcome(request, options, rejects) ==
  IF ~isAuthorized(request.authorization, options)
    THEN Handled(FALSE, <<>>, <<>>, <<>>)
    ELSE parseAndProcess(JSONParse(request.body), rejects)

\* startRESTServer(options): the server listens, no request handled yet
InitRest ==
  /\ guilds = EmptyMap
  /\ members = EmptyMap
  /\ channels = EmptyMap
  /\ bot = InitialBot
  /\ \E authorization \in {"secret", "other"} :
       lastCall = [op |-> "startRESTServer",
                   options |-> [authorization |-> authorization],
                   request |-> [authorization |-> Null, body |-> ""]]
  /\ result = Handled(FALSE, <<>>, <<>>, <<>>)

\* one request of the server's loop; processRequest completes or rejects
handlePayload(request, rejects) ==
  /\ lastCall' = [lastCall EXCEPT !.op = "handlePayload", !.request = request]
  /\ result' = handlePayloadOutcome(request, lastCall.options, rejects)
  /\ UNCHANGED <<guilds, members, channels, bot>>

NextRest ==
  \E authorization \in Headers, body \in Bodies, rejects \in BOOLEAN :
    handlePayload([authorization |-> authorization, body |-> body], rejects)

SpecRest == InitRest /\ [][NextRest]_vars


RestHandled == lastCall.op = "handlePayload"
Authorized == lastCall.request.authorization = lastCall.options.authorization
\* the request's body is JSON
JSONBody == JSONParse(lastCall.request.body).type # "SyntaxError"
\* the request's JSON body has the named property, and it is not empty
Carries(name) ==
  LET data == JSONParse(lastCall.request.body)
  IN /\ data.type = "object"
     /\ name \in DOMAIN data.props
     /\ data.props[name] # ""
Ignored == result = Handled(FALSE, <<>>, <<>>, <<>>)
Answered400 ==
  /\ Len(result.responses) = 1
  /\ result.responses[1].status = 400
  /\ result.processed = <<>>

\* C21 (first two parts): processRequest is called only for a request whose
\* authorization header equals options.authorization and whose JSON body
\* carries a url and a method; a request with another or no authorization
\* header is ignored: body not read, no response, not processed.
C21_ProcessedOnlyIfAuthorized ==
  RestHandled =>
    /\ result.processed # <<>> => (Authorized /\ Carries("url") /\ Carries("method"))
    /\ ~Authorized => Ignored

\* C21 (third part, bodies other than null): an authorized request whose JSON
\* body is not null and lacks url or method gets a 400 response and is not
\* processed.
C21_NonNullBodies ==
  (/\ RestHandled /\ Authorized /\ JSONBody
   /\ JSONParse(lastCall.request.body).type # "null"
   /\ ~(Carries("url") /\ Carries("method")))
    => Answered400

\* C21: processRequest is called only for an authorized request whose JSON
\* body carries url and method; an unauthorized request is ignored; an
\* authorized request whose JSON body lacks url or method gets a 400 response
\* and is not processed.
C21_RestGate ==
  /\ C21_ProcessedOnlyIfAuthorized
  /\ (RestHandled /\ Authorized /\ JSONBody /\ ~(Carries("url") /\ Carries("method")))
       => Answered400


\* C21 as amended: processRequest is called only for an authorized request
\* whose JSON body carries url and method; an unauthorized request is ignored;
\* an authorized request whose body parses to a value other than null and
\* lacks url or method gets a 400 response and is not processed; an
\* authorized request whose body is null or is not JSON gets no response and
\* is not processed, its error being reported.
C21_RestGateAmended ==
  /\ C21_ProcessedOnlyIfAuthorized
  /\ C21_NonNullBodies
  /\ (/\ RestHandled /\ Authorized
      /\ JSONParse(lastCall.request.body).type \in {"null", "SyntaxError"})
       => /\ result.responses = <<>>
          /\ result.processed = <<>>
          /\ result.errors # <<>>

\* an authorized request with a url and no method was answered with 400
C21_Witness ==
  /\ RestHandled /\ Authorized
  /\ Carries("url") /\ ~Carries("method")
  /\ Answered400
  /\ result.bodyRead


\* the roles of guild g that member m holds, none without a cached entry
HeldInGuild(m, g) ==
  IF m \in DOMAIN members /\ g \in DOMAIN members[m].guilds
    THEN RankedHeld(m, g) ELSE {}

HighestCalled(m, g) ==
  /\ RankCalled("highestRole")
  /\ lastCall.id = g
  /\ lastCall.memberID = m

\* the call returned a held role of maximal position
ReturnsMaximalHeld(m, g) ==
  /\ ~result.threw
  /\ Len(result.value) = 1
  /\ result.value[1] \in HeldInGuild(m, g)
  /\ \A o \in HeldInGuild(m, g) : o.position <= result.value[1].position

\* C22 (members holding a role, members without a cached entry): highestRole
\* returns a held role of maximal position, and the everyone role for a member
\* without a cached entry for the guild.
C22_HighestOfHeld ==
  \A m \in MemberIDs, g \in GuildIDs :
    HighestCalled(m, g) =>
      /\ HeldInGuild(m, g) # {} => ReturnsMaximalHeld(m, g)
      /\ (m \notin DOMAIN members \/ g \notin DOMAIN members[m].guilds)
           => result = Return(<<guilds[g].roles[g]>>)

\* C22: for a cached guild and any member ID highestRole returns a role of the
\* guild, never undefined: the everyone role when the member holds no role of
\* the guild (no cached entry, an empty role list, only role IDs the guild
\* does not have), otherwise a held role of maximal position.
C22_HighestRole ==
  \A m \in MemberIDs, g \in GuildIDs :
    HighestCalled(m, g) =>
      /\ HeldInGuild(m, g) # {} => ReturnsMaximalHeld(m, g)
      /\ HeldInGuild(m, g) = {} => result = Return(<<guilds[g].roles[g]>>)


\* role.higherThanRoleID was called on role r for role o of the same guild
HigherThanCalled(r, o) ==
  /\ RankCalled("higherThanRoleID")
  /\ lastCall.roleID = r
  /\ lastCall.otherRoleID = o
  /\ o \in DOMAIN guilds[lastCall.id].roles

\* the call returned the boolean higherRolePosition returns for the two roles
AgreesWithHigherRolePosition(r, o) ==
  /\ ~result.threw
  /\ ~higherRolePosition(lastCall.id, r, o).threw
  /\ result.value = higherRolePosition(lastCall.id, r, o).value

\* C23 (other role above position 0): r.higherThanRoleID(o.id, o.position)
\* returns what higherRolePosition(guildID, r.id, o.id) returns.
C23_PositivePositions ==
  \A r, o \in RankRoleIDs \cup GuildIDs :
    (HigherThanCalled(r, o) /\ guilds[lastCall.id].roles[o].position > 0)
      => AgreesWithHigherRolePosition(r, o)

\* C23: for two roles r and o of a guild, at any positions >= 0,
\* r.higherThanRoleID(o.id, o.position) returns the boolean that
\* higherRolePosition(guildID, r.id, o.id) returns and does not fail, the
\* position of o being passed by the caller or found in the cache.
C23_SameAsHigherRolePosition ==
  \A r, o \in RankRoleIDs \cup GuildIDs :
    HigherThanCalled(r, o) => AgreesWithHigherRolePosition(r, o)


(***************************************************************************)
(* handleInternalVoiceStateUpdate: the voice states of a cached guild.     *)
(***************************************************************************)
VoiceChannelIDs == {"40", "41"}

\* the VOICE_STATE_UPDATE payloads received: guild_id may be missing, the
\* member object may be missing, channel_id is null for a user in no channel
VoicePayloads ==
  [guild_id : {Undefined, "10", "11"},
   user_id : MemberIDs,
   channel_id : VoiceChannelIDs \cup {Null},
   member : {Undefined, "member"},
   session_id : {"s"}]

\* payload.channel_id || "": null is falsy
channelIDOrEmpty(channel_id) == IF channel_id = Null THEN "" ELSE channel_id

\* the entry set at lines 99-108 ({...payload, guildID, channelID, userID, sessionID})
voiceStateOf(payload) ==
  [guildID |-> payload.guild_id,
   channelID |-> channelIDOrEmpty(payload.channel_id),
   userID |-> payload.user_id,
   sessionID |-> payload.session_id,
   channel_id |-> payload.channel_id]

\* cachedState?.channelID
cachedChannelID(cachedState) ==
  IF cachedState = <<>> THEN Undefined ELSE cachedState[1].channelID

\* the entry is deleted when the user left: no channel now, a channel before
leftChannel(cachedState, payload) ==
  /\ cachedChannelID(cachedState) # payload.channel_id
  /\ payload.channel_id = Null
  /\ ~Falsy(cachedChannelID(cachedState))

\* the voice states of the guild after lines 97-123
voiceStatesAfter(voiceStates, payload) ==
  LET cachedState == Get(voiceStates, payload.user_id)
      set == (payload.user_id :> voiceStateOf(payload)) @@ voiceStates
  IN IF leftChannel(cachedState, payload)
       THEN [u \in DOMAIN set \ {payload.user_id} |-> set[u]]
       ELSE set

\* the events of lines 110-126
voiceEvents(voiceStates, payload) ==
  LET before == cachedChannelID(Get(voiceStates, payload.user_id))
  IN (IF before = payload.channel_id THEN <<>>
      ELSE IF payload.channel_id # Null
        THEN IF ~Falsy(before) THEN <<"voiceChannelSwitch">> ELSE <<"voiceChannelJoin">>
      ELSE IF ~Falsy(before) THEN <<"voiceChannelLeave">> ELSE <<>>)
     \o <<"voiceStateUpdate">>

\* the update is applied: a VOICE_STATE_UPDATE with a guild_id, the guild is
\* cached, the member comes with the payload or is cached
voiceUpdateApplies(data) ==
  /\ data.t = "VOICE_STATE_UPDATE"
  /\ ~Falsy(data.d.guild_id)
  /\ data.d.guild_id \in DOMAIN guilds
  /\ data.d.member # Undefined \/ data.d.user_id \in DOMAIN members

NoUpdate == "none"

InitVoice ==
  /\ guilds = ("10" :> [id |-> "10", ownerID |-> "20",
                        roles |-> ("10" :> RoleRecord("10", <<0>>)),
                        voiceStates |-> EmptyMap])
  /\ \/ members = EmptyMap
     \/ members = ("20" :> MemberRecord("20", ("10" :> [roles |-> <<>>])))
  /\ channels = EmptyMap
  /\ bot = InitialBot
  /\ lastCall = [op |-> "none", latest |-> [u \in MemberIDs |-> NoUpdate]]
  /\ result = <<>>

\* lastCall.latest keeps, per user, the channel_id of the latest update applied
handleInternalVoiceStateUpdate(data) ==
  /\ guilds' = IF voiceUpdateApplies(data)
                 THEN [guilds EXCEPT ![data.d.guild_id].voiceStates =
                         voiceStatesAfter(@, data.d)]
                 ELSE guilds
  /\ result' = IF voiceUpdateApplies(data)
                 THEN voiceEvents(guilds[data.d.guild_id].voiceStates, data.d)
                 ELSE <<>>
  /\ lastCall' = [op |-> "handleInternalVoiceStateUpdate",
                  latest |-> IF voiceUpdateApplies(data)
                               THEN [lastCall.latest EXCEPT ![data.d.user_id] =
                                       data.d.channel_id]
                               ELSE lastCall.latest]
  /\ UNCHANGED <<members, channels, bot>>

NextVoice ==
  \E t \in {"VOICE_STATE_UPDATE", "WEBHOOKS_UPDATE"}, d \in VoicePayloads :
    handleInternalVoiceStateUpdate([t |-> t, d |-> d])

SpecVoice == InitVoice /\ [][NextVoice]_vars


VoiceStates == guilds["10"].voiceStates

\* C24 (users seen in a channel): once a user's entry carries a channel, the
\* guild holds an entry for the user exactly when the latest update applied
\* carried a channel, and the entry's channelID is that channel.
C24_AfterJoin ==
  [][\A u \in MemberIDs :
       (u \in DOMAIN VoiceStates /\ VoiceStates[u].channelID # "") =>
         /\ u \in DOMAIN VoiceStates' <=> lastCall'.latest[u] # Null
         /\ u \in DOMAIN VoiceStates' => VoiceStates'[u].channelID = lastCall'.latest[u]]_vars

\* C24: after any sequence of VOICE_STATE_UPDATE payloads applied for the
\* cached guild, guild.voiceStates holds an entry for a user exactly when the
\* user's latest update carried a non-null channel_id, and the entry's
\* channelID is that channel.
C24_VoiceStates ==
  \A u \in MemberIDs :
    /\ u \in DOMAIN VoiceStates <=> lastCall.latest[u] \notin {NoUpdate, Null}
    /\ u \in DOMAIN VoiceStates => VoiceStates[u].channelID = lastCall.latest[u]

====
